---- MODULE Spec2Model ----
(***************************************************************************)
(* Model of src/anom_detect.py: class AnomDetect (streaming anomaly        *)
(* detection by Frequent-Directions matrix sketching).                     *)
(*                                                                         *)
(* Numerical domain of the model.  Every column handed to the detector is  *)
(* a multiple v*e_a of a standard basis vector of R^m, written <<a, v>>    *)
(* (the zero column is <<0, 0>>).  For such matrices D the product D.D^T   *)
(* is diagonal, so the SVD is exact: the singular values are the square    *)
(* roots of the row energies, and the left singular vectors are the        *)
(* standard basis vectors in descending order of row energy.  Singular     *)
(* values are kept SQUARED (integers), so no square root is ever rounded:  *)
(* the model is the code in exact arithmetic.  The criterion values tried  *)
(* are rationals <<num, den>> with den a power of 2, whose products with a *)
(* batch size are exact in floating point too.                             *)
(* A column of U is written as its axis a (the vector e_a, up to sign); a  *)
(* column s*e_a of B is written <<a, s^2>>, the zero column <<0, 0>>.      *)
(* Which basis numpy.linalg.svd returns for a repeated (or zero) singular  *)
(* value is fixed by the build and not by its interface: the variable      *)
(* pref is that rule, any order of the m axes (the first in pref comes     *)
(* first among equals), the same for every SVD of a behaviour.             *)
(* Indices of batch columns are 0-based as in the source.                  *)
(***************************************************************************)
EXTENDS Integers, Sequences, FiniteSets, TLC

MaxM == 3        \* largest number of features (rows) tried
MaxEll == 3      \* largest ell argument tried
MaxN0 == 3       \* largest number of training columns tried
MaxN == 2        \* largest batch size tried
MaxVal == 1      \* largest absolute entry of a column
MaxCalls == 2    \* detect calls per behaviour

VARIABLES
    pref,          \* the build's tie rule of ln.svd: an order of the m axes
    status,        \* "new" | "ready" | "failed" (constructor raised)
    args,          \* the arguments __init__ was called with
    criterion,     \* self.criterion
    criterion_v,   \* self.criterion_v, a rational <<num, den>>
    m,             \* self.m
    ell,           \* self.ell
    U,             \* self.U: sequence of axes
    B,             \* self.B: sequence of columns <<axis, squared norm>>
    calls,         \* number of detect calls made
    last           \* what the call that has just ended did (NoCall once taken)

vars == <<pref, status, args, criterion, criterion_v, m, ell, U, B, calls, last>>

----------------------------------------------------------------------------
(* helpers *)

Min(a, b) == IF a <= b THEN a ELSE b

Abs(x) == IF x < 0 THEN -x ELSE x

Range(s) == {s[i] : i \in 1..Len(s)}

Perms(S) == {p \in [1..Cardinality(S) -> S] : \A x \in S : \E i \in DOMAIN p : p[i] = x}

Reverse(s) == [i \in 1..Len(s) |-> s[Len(s) + 1 - i]]

\* int(np.sqrt(x)) for a natural x
IntSqrt(x) == CHOOSE r \in 0..x : r * r <= x /\ (r + 1) * (r + 1) > x

\* the m-vectors of the domain: v*e_a, and the zero vector
Cols(rows) == {<<0, 0>>} \cup {<<a, v>> : a \in 1..rows, v \in 1..MaxVal}

Mats(rows, maxn) == UNION {[1..n -> Cols(rows)] : n \in 0..maxn}

\* the (criterion, criterion_v) pairs tried; criterion_v is a rational
\* <<num, den>>, "x" is a criterion that is neither 'p' nor 'th'
Configs ==
    {<<"p", <<0, 1>>>>, <<"p", <<1, 2>>>>, <<"p", <<1, 1>>>>,
     <<"th", <<0, 1>>>>, <<"th", <<1, 1>>>>, <<"x", <<1, 2>>>>}

\* batches whose row count is not m: only their shape is ever looked at
ZeroMats(maxn) == UNION {[1..n -> {<<0, 0>>}] : n \in 0..maxn}

----------------------------------------------------------------------------
(* numpy on the domain *)

\* the columns of a batch as columns of D: v*e_a has squared norm v*v
SqCols(Y) ==
    [i \in 1..Len(Y) |-> IF Y[i][2] = 0 THEN <<0, 0>> ELSE <<Y[i][1], Y[i][2] * Y[i][2]>>]

\* mutant of TakeCols: the whole batch is handed on, whatever idx says
TakeColsAll(Y, idx) == Y

\* Y[:, idx] for a sequence idx of 0-based column indices
TakeCols(Y, idx) == [i \in 1..Len(idx) |-> Y[idx[i] + 1]]

\* X[:k] and X[k:] of a sequence, for k >= 0
Head_(X, k) == SubSeq(X, 1, Min(k, Len(X)))

Tail_(X, k) == SubSeq(X, Min(k, Len(X)) + 1, Len(X))

\* entry (a, a) of D.D^T: the squared norm of row a of D
RECURSIVE Energy(_, _)
Energy(D, a) ==
    IF D = <<>> THEN 0
    ELSE (IF Head(D)[1] = a THEN Head(D)[2] ELSE 0) + Energy(Tail(D), a)

PrefPos(pf, a) == CHOOSE i \in DOMAIN pf : pf[i] = a

\* the axes in the SVD's descending order of row energy en, ties by pf
OrderOf(en, rows, pf) ==
    CHOOSE p \in Perms(1..rows) :
        \A i, j \in 1..rows : i < j =>
            \/ en[p[i]] > en[p[j]]
            \/ en[p[i]] = en[p[j]] /\ PrefPos(pf, p[i]) < PrefPos(pf, p[j])

\* the first r left singular vectors (axes) and squared singular values
SvdOf(order, en, r) ==
    [U |-> [i \in 1..r |-> order[i]], s |-> [i \in 1..r |-> en[order[i]]]]

SvdEn(en, rows, pf, r) == SvdOf(OrderOf(en, rows, pf), en, r)

\* ln.svd(D, full_matrices=False) of a rows-by-Len(D) matrix: min(rows, Len(D))
\* left singular vectors and squared singular values, descending
svd(D, rows, pf) ==
    SvdEn([a \in 1..rows |-> Energy(D, a)], rows, pf, Min(rows, Len(D)))

\* mutant of Shrink: delta taken from the largest singular value, s[0]
ShrinkByFirst(s) == LET delta == s[1] IN [i \in 1..Len(s) |-> s[i] - delta]

\* delta = s[-1] ** 2; s = np.sqrt(s ** 2 - delta), on squared values
\* (a negative entry stands for the NaN np.sqrt returns)
Shrink(s) == LET delta == s[Len(s)] IN [i \in 1..Len(s) |-> s[i] - delta]

\* np.dot(U, np.diag(s)): column i is s[i] * U[:, i]
Dot(Ucols, s) ==
    [i \in 1..Len(Ucols) |-> IF s[i] = 0 THEN <<0, 0>> ELSE <<Ucols[i], s[i]>>]

\* mutant of Hstack: the previous sketch is left out of D
HstackNoB(Bcols, Y) == SqCols(Y)

\* np.hstack((B, Y))
Hstack(Bcols, Y) == Bcols \o SqCols(Y)

\* B = np.dot(U, np.diag(s)) of the truncated U and the shrunk s; s keeps the
\* retained squared singular values before the shrink
SketchOf(Ut, st) == [U |-> Ut, B |-> Dot(Ut, Shrink(st)), s |-> st]

\* mutant of SketchSv: the SVD is not truncated to ell components
SketchSvNoTrunc(sv, l) == SketchOf(sv.U, sv.s)

\* U[:, :ell] and s[:ell] of an SVD, then the shrink
SketchSv(sv, l) == SketchOf(Head_(sv.U, l), Head_(sv.s, l))

\* truncated SVD and shrink of a non-empty D, as __init__ and sketch_update do
Sketch(D, rows, l, pf) == SketchSv(svd(D, rows, pf), l)

sketch_update(Bcols, Y, rows, l, pf) == Sketch(Hstack(Bcols, Y), rows, l, pf)

\* a = ln.norm(np.dot(np.identity(m) - np.dot(U, U.T), y), ord=2) for y = v*e_a
Score(Ucols, y) == IF y[1] \in Range(Ucols) \/ y[2] = 0 THEN 0 ELSE Abs(y[2])

Scores(Ucols, Y) == [i \in 1..Len(Y) |-> Score(Ucols, Y[i])]

\* the results np.argsort(scores) can give: the 0-based indices in ascending
\* order of score; the default kind is not stable, so equal scores come in
\* any order
ArgSorts(scores) ==
    {p \in Perms(0..(Len(scores) - 1)) :
        \A i, j \in DOMAIN p : i < j => scores[p[i] + 1] <= scores[p[j] + 1]}

\* mutant of Descending: the [::-1] is missing
DescendingSame(asc) == asc

\* np.argsort(scores)[::-1]
Descending(asc) == Reverse(asc)

\* mutant of NAnomaly: n * p rounded up
NAnomalyCeil(n, p) == (n * p[1] + p[2] - 1) \div p[2]

\* int(n * p) for a rational p = <<num, den>> >= 0
NAnomaly(n, p) == (n * p[1]) \div p[2]

\* mutant of Above: scores >= th
AboveOrEqual(score, th) == score * th[2] >= th[1]

\* scores > th, for a rational th = <<num, den>>
Above(score, th) == score * th[2] > th[1]

\* mutant of NotAbove: scores < th
NotAboveStrict(score, th) == score * th[2] < th[1]

\* scores <= th
NotAbove(score, th) == score * th[2] <= th[1]

\* np.where(flags)[0]: the 0-based indices of the true entries, ascending
Where(flags) ==
    SelectSeq([i \in 1..Len(flags) |-> i - 1], LAMBDA i : flags[i + 1])

\* mutant of KnownCriterion: a plain else in place of the elif of line 74
KnownCriterionAny(crit) == TRUE

\* lines 67 and 74: one of the two branches is taken
KnownCriterion(crit) == crit \in {"p", "th"}

\* lines 67-78: the two index arrays
Partition(crit, cv, scores, asc) ==
    IF crit = "p"
    THEN LET sorted_idx == Descending(asc)
             n_anomaly == NAnomaly(Len(scores), cv)
         IN [anomaly_idx |-> Head_(sorted_idx, n_anomaly),
             non_anomaly_idx |-> Tail_(sorted_idx, n_anomaly),
             sorted_idx |-> sorted_idx]
    ELSE [anomaly_idx |-> Where([i \in 1..Len(scores) |-> Above(scores[i], cv)]),
          non_anomaly_idx |-> Where([i \in 1..Len(scores) |-> NotAbove(scores[i], cv)]),
          sorted_idx |-> <<>>]

----------------------------------------------------------------------------
(* the detector *)

\* the record of a call, before anything happened in it.  line: the source
\* line that raised; nscored: scores computed; nrefresh: calls of
\* sketch_update; refresh_arg: its argument; preU, preB: self.U and self.B
\* when the call began; s: the retained squared singular values before the
\* shrink
NoCall ==
    [op |-> "none", outcome |-> "none", line |-> 0, rows |-> 0, Y |-> <<>>,
     nscored |-> 0, scores |-> <<>>, argsort |-> <<>>, sorted_idx |-> <<>>,
     anomaly_idx |-> <<>>, non_anomaly_idx |-> <<>>, nrefresh |-> 0,
     refresh_arg |-> <<>>, preU |-> <<>>, preB |-> <<>>, s |-> <<>>]

\* mutant of EllOf: no default for ell < 1
EllOfRaw(rows, l) == l

\* self.ell of lines 27-29
EllOf(rows, l) == IF l < 1 THEN IntSqrt(rows) ELSE l

\* AnomDetect.__init__ on a rows-by-Len(Y0) training matrix.  With no column
\* there is no singular value: ln.svd (line 32) or s[-1] (line 38) raises,
\* and no object is made.  Nothing else is checked.
Initialize(Y0, rows, crit, cv, l, pf) ==
    /\ status = "new"
    /\ pref' = pf
    /\ args' = [m |-> rows, n0 |-> Len(Y0), ell |-> l]
    /\ IF Len(Y0) = 0
       THEN /\ status' = "failed"
            /\ last' = [NoCall EXCEPT !.op = "init", !.outcome = "error"]
            /\ UNCHANGED <<criterion, criterion_v, m, ell, U, B>>
       ELSE \E sk \in {Sketch(SqCols(Y0), rows, EllOf(rows, l), pf)} :
               /\ status' = "ready"
               /\ criterion' = crit
               /\ criterion_v' = cv
               /\ m' = rows
               /\ ell' = EllOf(rows, l)
               /\ U' = sk.U
               /\ B' = sk.B
               /\ last' = [NoCall EXCEPT !.op = "init", !.outcome = "ok", !.s = sk.s]
    /\ UNCHANGED calls

\* the state and the record of a call whose sketch_update returned sk
Refreshed(parted, sk) ==
    [U |-> sk.U, B |-> sk.B, last |-> [parted EXCEPT !.outcome = "ok", !.s = sk.s]]

\* AnomDetect.detect(Y) on a rows-by-Len(Y) batch, with asc the result of
\* np.argsort: what the call computes, where it raises, and the state it leaves
DetectRun(rows, Y, asc) ==
    LET n == Len(Y)
        base == [NoCall EXCEPT !.op = "detect", !.rows = rows, !.Y = Y,
                               !.preU = U, !.preB = B]
        scores == Scores(U, Y)
        part == Partition(criterion, criterion_v, scores, asc)
        arg == TakeCols(Y, part.non_anomaly_idx)
        scored == [base EXCEPT !.nscored = n, !.scores = scores]
        parted == [scored EXCEPT !.argsort = IF criterion = "p" THEN asc ELSE <<>>,
                                 !.sorted_idx = part.sorted_idx,
                                 !.anomaly_idx = part.anomaly_idx,
                                 !.non_anomaly_idx = part.non_anomaly_idx,
                                 !.nrefresh = 1, !.refresh_arg = arg]
    IN IF n > 0 /\ rows # m
       THEN \* line 60: np.dot(self.U.T, y) on the first column raises
            [U |-> U, B |-> B, last |-> [base EXCEPT !.outcome = "error", !.line = 60]]
       ELSE IF ~KnownCriterion(criterion)
       THEN \* line 81: non_anomaly_idx was never bound
            [U |-> U, B |-> B, last |-> [scored EXCEPT !.outcome = "error", !.line = 81]]
       ELSE IF rows # m
       THEN \* line 95: np.hstack of matrices with different row counts raises
            [U |-> U, B |-> B, last |-> [parted EXCEPT !.outcome = "error", !.line = 95]]
       ELSE Refreshed(parted, sketch_update(B, arg, m, ell, pref))

Detect(rows, Y, asc) ==
    /\ status = "ready"
    /\ calls < MaxCalls
    /\ \E run \in {DetectRun(rows, Y, asc)} :
          /\ U' = run.U
          /\ B' = run.B
          /\ last' = run.last
    /\ calls' = calls + 1
    /\ UNCHANGED <<pref, status, args, criterion, criterion_v, m, ell>>

Init ==
    /\ pref = <<>>
    /\ status = "new"
    /\ args = [m |-> 0, n0 |-> 0, ell |-> 0]
    /\ criterion = "none"
    /\ criterion_v = <<0, 1>>
    /\ m = 0
    /\ ell = 0
    /\ U = <<>>
    /\ B = <<>>
    /\ calls = 0
    /\ last = NoCall

DoInitialize ==
    /\ status = "new"
    /\ \E rows \in 1..MaxM, cf \in Configs, l \in 0..MaxEll :
          \E Y0 \in Mats(rows, MaxN0), pf \in Perms(1..rows) :
              Initialize(Y0, rows, cf[1], cf[2], l, pf)

\* the caller takes the returned index arrays and drops the batch: nothing of
\* a call but self.U and self.B is kept for the next one
Return ==
    /\ status = "ready"
    /\ last.op # "none"
    /\ last' = NoCall
    /\ UNCHANGED <<pref, status, args, criterion, criterion_v, m, ell, U, B, calls>>

DoDetect ==
    /\ status = "ready"
    /\ last.op = "none"
    /\ calls < MaxCalls
    /\ \/ \E Y \in Mats(m, MaxN) :
             \E asc \in ArgSorts(Scores(U, Y)) : Detect(m, Y, asc)
       \/ \E Y \in ZeroMats(MaxN) :
             \E asc \in ArgSorts(Scores(U, Y)) : Detect(m + 1, Y, asc)

Next == DoInitialize \/ DoDetect \/ Return

Spec == Init /\ [][Next]_vars

----------------------------------------------------------------------------
(* properties *)

DetectOk == last.op = "detect" /\ last.outcome = "ok"

Max(a, b) == IF a >= b THEN a ELSE b

\* position of the 0-based index i in an index sequence
PosIn(idx, i) == CHOOSE k \in DOMAIN idx : idx[k] = i

\* the squared shrunk singular value stored in column i of B
NormSq(Bcols, i) == Bcols[i][2]

\* C1: after every successful detect, in either criterion mode, the two index
\* arrays are disjoint, hold no index twice, and together hold exactly the
\* indices 0..n-1 of the batch, so their lengths add up to n.
C1_PartitionComplete ==
    DetectOk =>
        LET n == Len(last.Y)
            A == last.anomaly_idx
            N == last.non_anomaly_idx
        IN /\ criterion \in {"p", "th"}
           /\ Range(A) \cap Range(N) = {}
           /\ Range(A) \cup Range(N) = 0..(n - 1)
           /\ Cardinality(Range(A)) = Len(A)
           /\ Cardinality(Range(N)) = Len(N)
           /\ Len(A) + Len(N) = n

\* a threshold-mode call that put one index on each side, one of them with a
\* score equal to the threshold
C1_Witness ==
    /\ DetectOk
    /\ criterion = "th"
    /\ Len(last.anomaly_idx) = 1
    /\ Len(last.non_anomaly_idx) = 1
    /\ last.scores[last.non_anomaly_idx[1] + 1] * criterion_v[2] = criterion_v[1]

\* C2: in threshold mode an index is anomalous exactly when its score is
\* strictly greater than criterion_v; a score equal to the threshold (or
\* below it) is non-anomalous.  The scores are those of the batch against
\* the U the call began with.
C2_ThresholdExact ==
    (DetectOk /\ criterion = "th") =>
        /\ last.scores = [i \in 1..Len(last.Y) |-> Score(last.preU, last.Y[i])]
        /\ \A i \in 0..(Len(last.Y) - 1) :
              /\ i \in Range(last.anomaly_idx)
                    <=> last.scores[i + 1] * criterion_v[2] > criterion_v[1]
              /\ i \in Range(last.non_anomaly_idx)
                    <=> last.scores[i + 1] * criterion_v[2] <= criterion_v[1]

\* threshold 1, a column of score exactly 1 that was classified non-anomalous
C2_Witness ==
    /\ DetectOk
    /\ criterion = "th"
    /\ criterion_v = <<1, 1>>
    /\ \E i \in Range(last.non_anomaly_idx) : last.scores[i + 1] = 1

\* percentages the anomalous count is compared across
TestPercents == {<<0, 1>>, <<1, 4>>, <<1, 2>>, <<3, 4>>, <<1, 1>>}

\* p <= q for rationals with positive denominators
RatLeq(p, q) == p[1] * q[2] <= q[1] * p[2]

\* C3: in percentage mode with criterion_v in [0, 1] the anomalous array holds
\* exactly trunc(n * criterion_v) indices, every anomalous score is >= every
\* non-anomalous score, and a larger percentage on a batch of the same size
\* never gives fewer anomalous indices (a smaller one never more).
C3_PercentageTop ==
    (DetectOk /\ criterion = "p" /\ RatLeq(criterion_v, <<1, 1>>)) =>
        LET n == Len(last.Y)
            k == Len(last.anomaly_idx)
        IN /\ k * criterion_v[2] <= n * criterion_v[1]
           /\ n * criterion_v[1] < (k + 1) * criterion_v[2]
           /\ \A i \in Range(last.anomaly_idx), j \in Range(last.non_anomaly_idx) :
                 last.scores[i + 1] >= last.scores[j + 1]
           /\ \A q \in TestPercents :
                 /\ RatLeq(criterion_v, q) => NAnomaly(n, q) >= k
                 /\ RatLeq(q, criterion_v) => NAnomaly(n, q) <= k

\* half of a batch of two columns with different scores: the higher one is the
\* anomaly
C3_Witness ==
    /\ DetectOk
    /\ criterion = "p"
    /\ criterion_v = <<1, 2>>
    /\ Len(last.Y) = 2
    /\ Len(last.anomaly_idx) = 1
    /\ last.scores[last.anomaly_idx[1] + 1] > last.scores[last.non_anomaly_idx[1] + 1]

\* indices i < j of the last batch with equal scores
Tied(i, j) ==
    /\ i \in 0..(Len(last.Y) - 1)
    /\ j \in 0..(Len(last.Y) - 1)
    /\ i < j
    /\ last.scores[i + 1] = last.scores[j + 1]

\* np.argsort kept equal scores in ascending index order (as a stable sort does)
StableArgsort ==
    \A i, j \in 0..(Len(last.Y) - 1) :
        Tied(i, j) => PosIn(last.argsort, i) < PosIn(last.argsort, j)

\* C4 as stated: in the descending ordering used for the split, indices with
\* equal scores appear in ascending index order, so the lower-numbered of two
\* tied indices is classified anomalous first.
C4_TiesLowerFirst ==
    (DetectOk /\ criterion = "p") =>
        \A i, j \in 0..(Len(last.Y) - 1) :
            Tied(i, j) =>
                /\ PosIn(last.sorted_idx, i) < PosIn(last.sorted_idx, j)
                /\ j \in Range(last.anomaly_idx) => i \in Range(last.anomaly_idx)

\* C4 amended: the ordering used for the split is the exact reversal of the
\* ascending argsort.  Scores never increase along it, two tied indices appear
\* in it in the reverse of the order argsort gave them, and when argsort kept
\* tied indices in ascending index order they appear in DESCENDING index order,
\* so the higher-numbered of two tied indices is classified anomalous first.
C4_TiesReversed ==
    (DetectOk /\ criterion = "p") =>
        LET n == Len(last.Y)
        IN /\ Len(last.sorted_idx) = n
           /\ \A k \in 1..n : last.sorted_idx[k] = last.argsort[n + 1 - k]
           /\ \A k \in 1..(n - 1) :
                 last.scores[last.sorted_idx[k] + 1] >= last.scores[last.sorted_idx[k + 1] + 1]
           /\ \A i, j \in 0..(n - 1) :
                 Tied(i, j) =>
                    /\ PosIn(last.sorted_idx, i) < PosIn(last.sorted_idx, j)
                          <=> PosIn(last.argsort, i) > PosIn(last.argsort, j)
                    /\ StableArgsort =>
                          /\ PosIn(last.sorted_idx, j) < PosIn(last.sorted_idx, i)
                          /\ i \in Range(last.anomaly_idx) => j \in Range(last.anomaly_idx)

\* two columns of equal score, half of them anomalous, argsort in index order:
\* index 1 is the anomaly and index 0 is not
C4_Witness ==
    /\ DetectOk
    /\ criterion = "p"
    /\ criterion_v = <<1, 2>>
    /\ Len(last.Y) = 2
    /\ Tied(0, 1)
    /\ last.argsort = <<0, 1>>
    /\ last.anomaly_idx = <<1>>
    /\ last.non_anomaly_idx = <<0>>

\* C5: a successful detect scores every column of the batch against the U it
\* began with, partitions, and calls sketch_update exactly once, with exactly
\* the columns whose indices are in non_anomaly_idx (in that order); the
\* stored U and B are then what sketch_update makes of the previous B and
\* those columns alone, so the anomalous columns have no part in the next
\* state.
C5_RefreshNonAnomalous ==
    DetectOk =>
        LET N == last.non_anomaly_idx
            next == sketch_update(last.preB, last.refresh_arg, m, ell, pref)
        IN /\ last.nscored = Len(last.Y)
           /\ last.scores = [i \in 1..Len(last.Y) |-> Score(last.preU, last.Y[i])]
           /\ last.nrefresh = 1
           /\ last.refresh_arg = [k \in 1..Len(N) |-> last.Y[N[k] + 1]]
           /\ U = next.U
           /\ B = next.B

\* a batch with one anomalous column, of score 1, and one non-anomalous
\* column, not zero: the refresh changed B, and the axis of the anomalous
\* column has no energy in it
C5_Witness ==
    /\ DetectOk
    /\ Len(last.anomaly_idx) = 1
    /\ Len(last.non_anomaly_idx) = 1
    /\ last.scores[last.anomaly_idx[1] + 1] = 1
    /\ last.Y[last.non_anomaly_idx[1] + 1] # <<0, 0>>
    /\ B # last.preB
    /\ Len(B) = Len(last.preB)
    /\ Energy(B, last.Y[last.anomaly_idx[1] + 1][1]) = 0

EmptyBatchOk == DetectOk /\ Len(last.Y) = 0

\* C6 as stated: detect on an empty batch returns two empty index arrays and
\* leaves the stored sketch state (U, B) unchanged.
C6_EmptyBatchNoOp ==
    EmptyBatchOk =>
        /\ last.anomaly_idx = <<>>
        /\ last.non_anomaly_idx = <<>>
        /\ B = last.preB
        /\ U = last.preU

\* C6 amended: detect on an empty batch returns two empty index arrays and
\* reproduces the retained singular values and B (the row energies of B, and
\* each of its columns up to the basis the SVD picks), and it keeps the
\* columns of U whose shrunk singular value is not 0; the other columns of U,
\* the last one always among them, are recomputed from B and need not be what
\* they were.
C6_EmptyBatchKeepsB ==
    EmptyBatchOk =>
        /\ last.anomaly_idx = <<>>
        /\ last.non_anomaly_idx = <<>>
        /\ last.refresh_arg = <<>>
        /\ Len(B) = Len(last.preB)
        /\ Len(U) = Len(last.preU)
        /\ last.s = [i \in 1..Len(last.preB) |-> NormSq(last.preB, i)]
        /\ \A i \in 1..Len(B) : NormSq(B, i) = NormSq(last.preB, i)
        /\ \A a \in 1..m : Energy(B, a) = Energy(last.preB, a)
        /\ \A i \in 1..Len(B) : NormSq(B, i) # 0 => U[i] = last.preU[i]
        /\ NormSq(last.preB, Len(last.preB)) = 0

\* an empty batch after which B, with a non-zero column, is what it was and U
\* is not
C6_Witness ==
    /\ EmptyBatchOk
    /\ B = last.preB
    /\ \E i \in 1..Len(B) : NormSq(B, i) # 0
    /\ U # last.preU

\* C7: after initialize and after every refresh, the squared shrunk values in
\* B are max(s_i^2 - delta, 0) with delta the square of the smallest retained
\* singular value: none is negative, they are in the descending order of the
\* retained singular values, and the last one is exactly 0.
C7_Shrink ==
    (last.outcome = "ok" /\ last.op \in {"init", "detect"}) =>
        LET s == last.s
            k == Len(s)
            delta == s[k]
        IN /\ k >= 1
           /\ Len(B) = k
           /\ \A i \in 1..k : NormSq(B, i) = Max(s[i] - delta, 0)
           /\ \A i \in 1..k : NormSq(B, i) >= 0
           /\ \A i \in 1..(k - 1) : s[i] >= s[i + 1] /\ NormSq(B, i) >= NormSq(B, i + 1)
           /\ NormSq(B, k) = 0

\* a refresh that kept three singular values, shrank two of them to different
\* non-zero values and the smallest, itself not 0, to 0
C7_Witness ==
    /\ DetectOk
    /\ Len(B) = 3
    /\ last.s[3] > 0
    /\ NormSq(B, 1) > NormSq(B, 2)
    /\ NormSq(B, 2) > 0
    /\ NormSq(B, 3) = 0

InvalidCall ==
    /\ last.op = "detect"
    /\ last.rows # m \/ criterion \notin {"p", "th"}

\* C8 as stated: an invalid detect call (wrong row count, or a criterion that
\* is neither of the two modes) is rejected at the start, before any score is
\* computed, and leaves U and B as they were.
C8_RejectedAtStart ==
    InvalidCall =>
        /\ last.outcome = "error"
        /\ last.nscored = 0
        /\ U = last.preU
        /\ B = last.preB

\* C8 amended: an invalid detect call ends in an error and leaves U and B as
\* they were, but the error does not come at the start.  A wrong row count
\* raises while the first column is scored (no score computed), or, for an
\* empty batch, only in sketch_update's concatenation; an unrecognized
\* criterion raises only after all n columns have been scored, where the
\* non-anomalous columns are selected.
C8_RejectedUnchanged ==
    InvalidCall =>
        LET n == Len(last.Y)
        IN /\ last.outcome = "error"
           /\ U = last.preU
           /\ B = last.preB
           /\ (last.rows # m /\ n > 0) =>
                 last.line = 60 /\ last.nscored = 0 /\ last.nrefresh = 0
           /\ (criterion \notin {"p", "th"} /\ ~(last.rows # m /\ n > 0)) =>
                 last.line = 81 /\ last.nscored = n /\ last.nrefresh = 0
           /\ (last.rows # m /\ n = 0 /\ criterion \in {"p", "th"}) =>
                 last.line = 95 /\ last.nrefresh = 1

\* an unrecognized criterion on a batch of two columns of the right height:
\* both are scored before the error
C8_Witness ==
    /\ InvalidCall
    /\ last.rows = m
    /\ Len(last.Y) = 2
    /\ last.outcome = "error"
    /\ last.nscored = 2
    /\ Len(U) >= 1

\* C9 as stated: initialize fails when Y0 has fewer than ell columns, when
\* ell > m, and when ell < 1, and then no detector is produced.
C9_InitRejects ==
    (status # "new" /\ (args.n0 < args.ell \/ args.ell > args.m \/ args.ell < 1)) =>
        status = "failed"

\* C9 amended: initialize checks none of this.  It fails only when Y0 has no
\* column; with ell < 1 it takes ell = int(sqrt(m)); and when Y0 has fewer than
\* ell columns or ell > m it produces a detector whose U and B have
\* min(m, n0), fewer than ell, columns.
C9_InitUnchecked ==
    (status # "new") =>
        /\ status = "failed" <=> args.n0 = 0
        /\ (status = "ready" /\ last.op = "init") =>
              /\ m = args.m
              /\ args.ell >= 1 => ell = args.ell
              /\ args.ell < 1 => ell * ell <= m /\ m < (ell + 1) * (ell + 1)
              /\ Len(U) = Min(Min(m, args.n0), ell)
              /\ Len(B) = Len(U)
              /\ (args.n0 < ell \/ ell > m) => Len(U) < ell

\* a detector made from one training column with ell = 2
C9_Witness ==
    /\ status = "ready"
    /\ last.op = "init"
    /\ args.n0 = 1
    /\ args.ell = 2
    /\ Len(U) = 1

\* every column of U is an axis of R^m and every column of B a multiple of one
RowsAreM ==
    /\ \A i \in 1..Len(U) : U[i] \in 1..m
    /\ \A i \in 1..Len(B) : B[i][1] \in 0..m

EllFixed ==
    /\ m = args.m
    /\ ell = IF args.ell < 1 THEN CHOOSE r \in 0..m : r * r <= m /\ m < (r + 1) * (r + 1)
             ELSE args.ell

====
